---- MODULE Spec2Model ----
(***************************************************************************)
(* Model of the orbit C++ API client (clients/cpp): the request builder    *)
(* of ApiClient::stream_chat, ApiClient::endpoint, and the incremental     *)
(* line-buffered SSE parser on_write that libcurl calls once per chunk.    *)
(*                                                                         *)
(* A std::string is a sequence of one-character strings.  Positions are    *)
(* 0-based as in the source; At(s, i) is s[i].                             *)
(***************************************************************************)
EXTENDS Integers, Sequences, FiniteSets, TLC

VARIABLES
  api_url_,     \* ApiClient::api_url_
  api_key_,     \* ApiClient::api_key_
  session_id_,  \* ApiClient::session_id_
  calls,        \* invocations of stream_chat the caller has yet to make,
                \* each with the bytes the server will answer with
  pc,           \* "idle": no call in progress; "perform": inside curl_easy_perform
  message,      \* argument of the current (or last) stream_chat call
  stream,       \* argument of the current (or last) stream_chat call
  wire,         \* response bytes of the current exchange
  sent,         \* number of bytes of wire already handed to on_write
  nwrites,      \* number of on_write invocations in this exchange
  received,     \* concatenation of the chunks handed to on_write so far
  curl,         \* options set on the easy handle: url, post, postfields, headers
  buffer,       \* WriteCtx::buffer
  emitted,      \* StreamResponse values passed to WriteCtx::cb, in call order
  write_ok,     \* every on_write invocation so far returned size * nmemb
  res,          \* CURLcode returned by the last curl_easy_perform
  leftover,     \* what the buffer of the previous WriteCtx held when the
                \* current one was created
  outcome       \* how the last stream_chat call ended

vars ==
  <<api_url_, api_key_, session_id_, calls, pc, message, stream, wire, sent,
    nwrites, received, curl, buffer, emitted, write_ok, res, leftover,
    outcome>>

----------------------------------------------------------------------------
(* Bounds *)

MaxLines ==
  2

MaxWrites ==
  3

MaxMsgLen ==
  3

MaxCalls ==
  2

----------------------------------------------------------------------------
(* Characters and literals of the source *)

NL ==
  "\n"

QUOTE ==
  "\""

BACKSLASH ==
  "\\"

NPOS ==
  -1

PrefixLen ==
  6

SuffixLen ==
  8

DataPrefix ==
  <<"d", "a", "t", "a", ":", " ">>

DoneSentinel ==
  <<"[", "D", "O", "N", "E", "]">>

ResponseKey ==
  <<"\"", "r", "e", "s", "p", "o", "n", "s", "e", "\"", ":">>

ChatSuffix ==
  <<"/", "v", "1", "/", "c", "h", "a", "t">>

ChatSuffixNoSlash ==
  <<"v", "1", "/", "c", "h", "a", "t">>

BodyHead ==
  <<"{", "\"", "m", "e", "s", "s", "a", "g", "e", "s", "\"", ":", "[", "{", "\"", "r", "o", "l", "e", "\"", ":", "\"", "u", "s", "e", "r", "\"", ",", "\"", "c", "o", "n", "t", "e", "n", "t", "\"", ":">>

BodyMid ==
  <<"}", "]", ",", "\"", "s", "t", "r", "e", "a", "m", "\"", ":">>

BodyTail ==
  <<"}">>

TrueText ==
  <<"t", "r", "u", "e">>

FalseText ==
  <<"f", "a", "l", "s", "e">>

HdrContentType ==
  <<"C", "o", "n", "t", "e", "n", "t", "-", "T", "y", "p", "e", ":", " ", "a", "p", "p", "l", "i", "c", "a", "t", "i", "o", "n", "/", "j", "s", "o", "n">>

HdrAcceptSse ==
  <<"A", "c", "c", "e", "p", "t", ":", " ", "t", "e", "x", "t", "/", "e", "v", "e", "n", "t", "-", "s", "t", "r", "e", "a", "m">>

HdrAcceptJson ==
  <<"A", "c", "c", "e", "p", "t", ":", " ", "a", "p", "p", "l", "i", "c", "a", "t", "i", "o", "n", "/", "j", "s", "o", "n">>

HdrApiKey ==
  <<"X", "-", "A", "P", "I", "-", "K", "e", "y", ":", " ">>

HdrSessionId ==
  <<"X", "-", "S", "e", "s", "s", "i", "o", "n", "-", "I", "D", ":", " ">>

----------------------------------------------------------------------------
(* std::string operations used by the source *)

Min(a, b) ==
  IF a <= b THEN a ELSE b

At(s, i) ==
  s[i + 1]

Substr(s, pos, n) ==
  SubSeq(s, pos + 1, pos + Min(n, Len(s) - pos))

SubstrFrom(s, pos) ==
  SubSeq(s, pos + 1, Len(s))

MatchAt(s, key, i) ==
  /\ i >= 0
  /\ i + Len(key) <= Len(s)
  /\ \A k \in 1..Len(key) : s[i + k] = key[k]

\* s.find(c, pos): the first index >= pos holding c, or npos
FindChar(s, c, pos) ==
  LET hits == {i \in pos..(Len(s) - 1) : At(s, i) = c}
  IN  IF hits = {} THEN NPOS
      ELSE CHOOSE i \in hits : \A j \in hits : i <= j

\* s.find(key, pos): the first index >= pos where key occurs, or npos
FindStr(s, key, pos) ==
  LET hits == {i \in pos..(Len(s) - Len(key)) : MatchAt(s, key, i)}
  IN  IF hits = {} THEN NPOS
      ELSE CHOOSE i \in hits : \A j \in hits : i <= j

\* s.rfind(key, pos): the last index <= pos where key occurs, or npos;
\* pos = npos places no limit
RFindStr(s, key, pos) ==
  LET limit == IF pos = NPOS THEN Len(s) ELSE pos
      hits == {i \in 0..Min(limit, Len(s) - Len(key)) : MatchAt(s, key, i)}
  IN  IF hits = {} THEN NPOS
      ELSE CHOOSE i \in hits : \A j \in hits : i >= j

----------------------------------------------------------------------------
(* ApiClient::endpoint *)

\* endpoint without the length test before the suffix comparison
endpoint_NoLengthGuard(api_url) ==
  IF RFindStr(api_url, ChatSuffix, NPOS) = Len(api_url) - SuffixLen
  THEN api_url
  ELSE IF api_url # <<>> /\ At(api_url, Len(api_url) - 1) = "/"
  THEN api_url \o ChatSuffixNoSlash
  ELSE api_url \o ChatSuffix

endpoint(api_url) ==
  IF /\ Len(api_url) >= SuffixLen
     /\ RFindStr(api_url, ChatSuffix, NPOS) = Len(api_url) - SuffixLen
  THEN api_url
  ELSE IF api_url # <<>> /\ At(api_url, Len(api_url) - 1) = "/"
  THEN api_url \o ChatSuffixNoSlash
  ELSE api_url \o ChatSuffix

----------------------------------------------------------------------------
(* The request built by ApiClient::stream_chat *)

\* the escaping loop without its newline branch
EscapeChar_NoNewline(c) ==
  IF c = BACKSLASH THEN <<BACKSLASH, BACKSLASH>>
  ELSE IF c = QUOTE THEN <<BACKSLASH, QUOTE>>
  ELSE <<c>>

\* one iteration of the escaping loop: what is written to os for c
EscapeChar(c) ==
  IF c = BACKSLASH THEN <<BACKSLASH, BACKSLASH>>
  ELSE IF c = QUOTE THEN <<BACKSLASH, QUOTE>>
  ELSE IF c = NL THEN <<BACKSLASH, "n">>
  ELSE <<c>>

RECURSIVE EscapeLoop(_, _, _)
\* for (char c : message) os << ...; i is the index of the next character
EscapeLoop(os, msg, i) ==
  IF i >= Len(msg) THEN os
  ELSE EscapeLoop(os \o EscapeChar(At(msg, i)), msg, i + 1)

StreamText(flag) ==
  IF flag THEN TrueText ELSE FalseText

BuildBody(msg, flag) ==
  EscapeLoop(BodyHead, msg, 0) \o BodyMid \o StreamText(flag) \o BodyTail

AcceptHeader(flag) ==
  IF flag THEN HdrAcceptSse ELSE HdrAcceptJson

\* the API key header appended without the emptiness test
ApiKeyHeader_Always(hs, key) ==
  Append(hs, HdrApiKey \o key)

ApiKeyHeader(hs, key) ==
  IF key # <<>> THEN Append(hs, HdrApiKey \o key) ELSE hs

SessionHeader(hs, sid) ==
  IF sid # <<>> THEN Append(hs, HdrSessionId \o sid) ELSE hs

BuildHeaders(flag, key, sid) ==
  SessionHeader(ApiKeyHeader(<<HdrContentType, AcceptHeader(flag)>>, key), sid)

\* the easy handle before any option is set (also: no handle)
NoRequest ==
  [url |-> <<>>, post |-> FALSE, postfields |-> <<>>, headers |-> <<>>,
   writefunction |-> FALSE]

BuildRequest(api_url, key, sid, msg, flag) ==
  [url |-> endpoint(api_url), post |-> TRUE,
   postfields |-> BuildBody(msg, flag),
   headers |-> BuildHeaders(flag, key, sid),
   writefunction |-> TRUE]

----------------------------------------------------------------------------
(* on_write: the incremental response parser *)

StreamResponse(text, done) ==
  [text |-> text, done |-> done]

\* the prefix test without the space of "data: "
StartsWithData_NoSpace(line) ==
  RFindStr(line, SubSeq(DataPrefix, 1, 5), 0) = 0

StartsWithData(line) ==
  RFindStr(line, DataPrefix, 0) = 0

\* the sentinel test without the empty payload
IsSentinel_DoneOnly(payload) ==
  payload = DoneSentinel

IsSentinel(payload) ==
  payload = DoneSentinel \/ payload = <<>>

\* the extraction without the raw-payload fallback
ExtractResponse_NoFallback(payload) ==
  LET kpos == FindStr(payload, ResponseKey, 0)
      start == FindChar(payload, QUOTE, kpos + Len(ResponseKey))
      end == FindChar(payload, QUOTE, start + 1)
  IN  IF kpos # NPOS /\ start # NPOS /\ end # NPOS
      THEN <<StreamResponse(Substr(payload, start + 1, end - start - 1), FALSE)>>
      ELSE <<>>

\* the extraction ending the text at the last double quote of the payload
ExtractResponse_LastQuote(payload) ==
  LET kpos == FindStr(payload, ResponseKey, 0)
      start == FindChar(payload, QUOTE, kpos + Len(ResponseKey))
      quotes == {i \in (start + 1)..(Len(payload) - 1) : At(payload, i) = QUOTE}
  IN  IF kpos = NPOS THEN <<StreamResponse(payload, FALSE)>>
      ELSE IF start = NPOS \/ quotes = {} THEN <<>>
      ELSE LET end == CHOOSE i \in quotes : \A j \in quotes : i >= j
           IN  <<StreamResponse(Substr(payload, start + 1, end - start - 1),
                                FALSE)>>

\* the extraction falling back to the raw payload when quotes are missing
ExtractResponse_FallbackOnMissingQuote(payload) ==
  LET kpos == FindStr(payload, ResponseKey, 0)
      start == FindChar(payload, QUOTE, kpos + Len(ResponseKey))
      end == FindChar(payload, QUOTE, start + 1)
  IN  IF kpos # NPOS /\ start # NPOS /\ end # NPOS
      THEN <<StreamResponse(Substr(payload, start + 1, end - start - 1), FALSE)>>
      ELSE <<StreamResponse(payload, FALSE)>>

\* naive extraction of the response text from a payload that is no sentinel:
\* the callback invocations it makes (none or one)
ExtractResponse(payload) ==
  LET kpos == FindStr(payload, ResponseKey, 0)
  IN  IF kpos # NPOS
      THEN LET start == FindChar(payload, QUOTE, kpos + Len(ResponseKey))
           IN  IF start # NPOS
               THEN LET end == FindChar(payload, QUOTE, start + 1)
                    IN  IF end # NPOS
                        THEN <<StreamResponse(
                                 Substr(payload, start + 1, end - start - 1),
                                 FALSE)>>
                        ELSE <<>>
               ELSE <<>>
      ELSE <<StreamResponse(payload, FALSE)>>

\* the line processing done in streaming mode only
ProcessLine_StreamingOnly(line) ==
  IF stream /\ StartsWithData(line)
  THEN LET payload == SubstrFrom(line, PrefixLen)
       IN  IF IsSentinel(payload)
           THEN <<StreamResponse(<<>>, TRUE)>>
           ELSE ExtractResponse(payload)
  ELSE <<>>

\* the body of the for-loop for one line: the callback invocations it makes
ProcessLine(line) ==
  IF StartsWithData(line)
  THEN LET payload == SubstrFrom(line, PrefixLen)
       IN  IF IsSentinel(payload)
           THEN <<StreamResponse(<<>>, TRUE)>>
           ELSE ExtractResponse(payload)
  ELSE <<>>

RECURSIVE ScanLines_Reversed(_, _, _)
\* the loop delivering each new unit ahead of the earlier ones
ScanLines_Reversed(buf, pos, out) ==
  LET nl == FindChar(buf, NL, pos)
  IN  IF nl = NPOS THEN [pos |-> pos, out |-> out]
      ELSE ScanLines_Reversed(buf, nl + 1,
                              ProcessLine(Substr(buf, pos, nl - pos)) \o out)

RECURSIVE ScanLines_StopAtDone(_, _, _)
\* the loop treating a done unit as the end of the stream: it consumes
\* the rest of the buffer without processing it
ScanLines_StopAtDone(buf, pos, out) ==
  LET nl == FindChar(buf, NL, pos)
  IN  IF nl = NPOS THEN [pos |-> pos, out |-> out]
      ELSE LET units == ProcessLine(Substr(buf, pos, nl - pos))
           IN  IF units # <<>> /\ units[1].done
               THEN [pos |-> Len(buf), out |-> out \o units]
               ELSE ScanLines_StopAtDone(buf, nl + 1, out \o units)

RECURSIVE ScanLines(_, _, _)
\* the for (;;) loop: pos is the scan position, out the callback
\* invocations made so far; yields the final pos and the invocations
ScanLines(buf, pos, out) ==
  LET nl == FindChar(buf, NL, pos)
  IN  IF nl = NPOS THEN [pos |-> pos, out |-> out]
      ELSE ScanLines(buf, nl + 1,
                     out \o ProcessLine(Substr(buf, pos, nl - pos)))

\* the remainder thrown away instead of kept
KeepRemainder_Dropped(buf, pos) ==
  <<>>

\* the buffer kept whole, consumed lines included
KeepRemainder_Whole(buf, pos) ==
  buf

\* keep remainder
KeepRemainder(buf, pos) ==
  SubstrFrom(buf, pos)

\* on_write returning the number of bytes it consumed as complete lines
on_write_ReturnsConsumed(buf, chunk) ==
  LET appended == buf \o chunk
      scan == ScanLines(appended, 0, <<>>)
  IN  [buffer |-> KeepRemainder(appended, scan.pos),
       cb |-> scan.out,
       ret |-> scan.pos]

\* on_write(ptr, size, nmemb, userdata) with chunk = ptr[0 .. size*nmemb) and
\* buf = ctx->buffer on entry: the buffer on return, the callback
\* invocations in order, and the return value
on_write(buf, chunk) ==
  LET total == Len(chunk)
      appended == buf \o chunk
      scan == ScanLines(appended, 0, <<>>)
  IN  [buffer |-> KeepRemainder(appended, scan.pos),
       cb |-> scan.out,
       ret |-> total]

CURLE_OK ==
  "CURLE_OK"

CURLE_WRITE_ERROR ==
  "CURLE_WRITE_ERROR"

CURLE_RECV_ERROR ==
  "CURLE_RECV_ERROR"

\* stream_chat returning whatever code curl_easy_perform gave
AfterPerform_IgnoresCode(code) ==
  "returned"

\* the end of stream_chat once curl_easy_perform has returned code: it
\* throws "Request failed" unless the code is CURLE_OK
AfterPerform(code) ==
  IF code # CURLE_OK THEN "request_error" ELSE "returned"

\* a terminal unit synthesised when the transfer completes
CallbacksAfterPerform_SynthDone(buf) ==
  <<StreamResponse(<<>>, TRUE)>>

\* the unterminated remainder processed as a last line
CallbacksAfterPerform_Flush(buf) ==
  IF buf = <<>> THEN <<>> ELSE ProcessLine(buf)

\* the callback invocations stream_chat makes after curl_easy_perform has
\* returned, buf being what the WriteCtx still holds: none, the context is
\* destroyed with its buffer
CallbacksAfterPerform(buf) ==
  <<>>

\* the buffer of the earlier context carried over
FreshBuffer_Retained(old) ==
  old

\* WriteCtx ctx{on_chunk, {}}: the buffer of a new context, whatever an
\* earlier context held
FreshBuffer(old) ==
  <<>>

----------------------------------------------------------------------------
(* Inputs: response lines, response streams, messages, configurations *)

LineDone ==
  <<"d", "a", "t", "a", ":", " ", "[", "D", "O", "N", "E", "]">>

LineEmptyData ==
  <<"d", "a", "t", "a", ":", " ">>

LineA ==
  <<"d", "a", "t", "a", ":", " ", "{", "\"", "r", "e", "s", "p", "o", "n", "s", "e", "\"", ":", "\"", "A", "\"", "}">>

LineB ==
  <<"d", "a", "t", "a", ":", " ", "{", "\"", "r", "e", "s", "p", "o", "n", "s", "e", "\"", ":", "\"", "B", "\"", "}">>

LineHello ==
  <<"d", "a", "t", "a", ":", " ", "{", "\"", "r", "e", "s", "p", "o", "n", "s", "e", "\"", ":", "\"", "h", "e", "l", "l", "o", "\"", "}">>

LineKeepAlive ==
  <<":", " ", "k", "e", "e", "p", "-", "a", "l", "i", "v", "e">>

LineEvent ==
  <<"e", "v", "e", "n", "t", ":", " ", "x">>

LineDataNoSpace ==
  <<"d", "a", "t", "a", ":">>

LinePlain ==
  <<"d", "a", "t", "a", ":", " ", "p", "l", "a", "i", "n", "s", "t", "r", "i", "n", "g">>

HelloPart1 ==
  <<"d", "a", "t", "a", ":", " ", "{", "\"", "r", "e", "s", "p", "o", "n", "s", "e", "\"", ":", "\"", "h", "e", "l">>

HelloPart2 ==
  <<"l", "o", "\"", "}", "\n">>

TextHello ==
  <<"h", "e", "l", "l", "o">>

TextA ==
  <<"A">>

TextB ==
  <<"B">>

LineBlank ==
  <<>>

Terminated(line) ==
  line \o <<NL>>

\* lines that exercise the framing rules of the parser
FramingLines ==
  {LineDone, LineEmptyData, LineA, LineKeepAlive, LineBlank}

\* lines without the prefix "data: ", and one with it
CommentLines ==
  {LineKeepAlive, LineBlank, LineEvent, LineDataNoSpace, LineA}

RECURSIVE LineStreams(_, _)
\* every stream of at most n newline-terminated lines drawn from lines
LineStreams(lines, n) ==
  IF n = 0 THEN {<<>>}
  ELSE LET shorter == LineStreams(lines, n - 1)
       IN  shorter \cup {s \o Terminated(l) : s \in shorter, l \in lines}

\* what may follow the last newline of a response
LineX ==
  <<"d", "a", "t", "a", ":", " ", "{", "\"", "r", "e", "s", "p", "o", "n", "s", "e", "\"", ":", "\"", "x", "\"", "}">>

Tails ==
  {<<>>, LineDone}

HelloWire ==
  HelloPart1 \o HelloPart2

ABWire ==
  Terminated(LineA) \o Terminated(LineB)

Wires ==
  {s \o t : s \in LineStreams(FramingLines, MaxLines), t \in Tails}
    \cup {HelloWire, ABWire}

LineEscQuote ==
  <<"d", "a", "t", "a", ":", " ", "{", "\"", "r", "e", "s", "p", "o", "n", "s", "e", "\"", ":", "\"", "a", "\\", "\"", "b", "\"", "}">>

LineNoQuote ==
  <<"d", "a", "t", "a", ":", " ", "{", "\"", "r", "e", "s", "p", "o", "n", "s", "e", "\"", ":", "1", "}">>

LineOneQuote ==
  <<"d", "a", "t", "a", ":", " ", "{", "\"", "r", "e", "s", "p", "o", "n", "s", "e", "\"", ":", "\"", "x">>

LineKeyLater ==
  <<"d", "a", "t", "a", ":", " ", "{", "\"", "i", "\"", ":", "\"", "7", "\"", ",", "\"", "r", "e", "s", "p", "o", "n", "s", "e", "\"", ":", "\"", "B", "\"", "}">>

JsonBody ==
  <<"{", "\"", "r", "e", "s", "p", "o", "n", "s", "e", "\"", ":", "\"", "x", "\"", "}">>

TextPlain ==
  <<"p", "l", "a", "i", "n", "s", "t", "r", "i", "n", "g">>

TextEscCut ==
  <<"a", "\\">>

\* lines that exercise the extraction of the response text
ExtractLines ==
  {LinePlain, LineEscQuote, LineOneQuote, LineKeyLater}

ExtractWires ==
  LineStreams(ExtractLines, MaxLines)

CommentWires ==
  LineStreams(CommentLines, MaxLines)

\* lines the parser can make nothing of, and a well-formed one
AnomalyLines ==
  {LineNoQuote, LineOneQuote, LineDataNoSpace, LineA}

AnomalyWires ==
  LineStreams(AnomalyLines, MaxLines)

\* responses to a call in either mode: framed lines, an unframed JSON body
ModeLines ==
  {JsonBody, LineA, LineDone}

ModeWires ==
  {s \o t : s \in LineStreams(ModeLines, MaxLines), t \in {<<>>, JsonBody}}

\* responses that end in an unterminated line
TailLines ==
  {LineA, LineDone}

TailWires ==
  {s \o t : s \in LineStreams(TailLines, MaxLines),
            t \in {<<>>, LineDone, LineX, SubSeq(DataPrefix, 1, 2)}}

\* responses of consecutive calls: the first two are the halves of one line
CallWires ==
  {HelloPart1, HelloPart2, Terminated(LineA) \o LineDone}

RECURSIVE CallSeqs(_, _)
\* every sequence of 1 to n invocations drawn from options
CallSeqs(options, n) ==
  IF n = 0 THEN {}
  ELSE LET shorter == CallSeqs(options, n - 1)
       IN  {<<c>> : c \in options} \cup shorter
             \cup {Append(cs, c) : cs \in shorter, c \in options}

MsgHi ==
  <<"h", "i">>

MsgChars ==
  {"a", BACKSLASH, QUOTE, NL, "\t"}

RECURSIVE SeqsUpTo(_, _)
SeqsUpTo(S, n) ==
  IF n = 0 THEN {<<>>}
  ELSE LET shorter == SeqsUpTo(S, n - 1)
       IN  shorter \cup {Append(s, c) : s \in shorter, c \in S}

Messages ==
  SeqsUpTo(MsgChars, MaxMsgLen)

UrlHost ==
  <<"h">>

BaseUrls ==
  {<<>>, <<"/">>, UrlHost, UrlHost \o <<"/">>, ChatSuffix, ChatSuffixNoSlash,
   UrlHost \o ChatSuffix, UrlHost \o ChatSuffix \o <<"/">>,
   SubSeq(ChatSuffix, 1, 7), ChatSuffix \o ChatSuffix,
   ChatSuffix \o UrlHost, UrlHost \o ChatSuffixNoSlash}

ApiKeys ==
  {<<>>, <<"k">>}

SessionIds ==
  {<<>>, <<"s">>}

ShortWire ==
  Terminated(LineEmptyData)

Invocation(msg, flag, w) ==
  [message |-> msg, stream |-> flag, wire |-> w]

----------------------------------------------------------------------------
(* State machine *)

\* the state after ApiClient's constructor, with the calls still to come
Constructed(url, key, sid, cs) ==
  /\ api_url_ = url
  /\ api_key_ = key
  /\ session_id_ = sid
  /\ calls = cs
  /\ pc = "idle"
  /\ message = <<>>
  /\ stream = FALSE
  /\ wire = <<>>
  /\ sent = 0
  /\ nwrites = 0
  /\ received = <<>>
  /\ curl = NoRequest
  /\ buffer = <<>>
  /\ emitted = <<>>
  /\ write_ok = TRUE
  /\ res = "none"
  /\ leftover = <<>>
  /\ outcome = "none"

\* one streaming call against every response stream
Init ==
  \E w \in Wires :
    Constructed(UrlHost, <<>>, <<>>, <<Invocation(MsgHi, TRUE, w)>>)

\* one call for every configuration and every message
InitRequest ==
  \/ \E url \in BaseUrls, key \in ApiKeys, sid \in SessionIds, flag \in BOOLEAN :
       Constructed(url, key, sid, <<Invocation(MsgHi, flag, ShortWire)>>)
  \/ \E msg \in Messages, flag \in BOOLEAN :
       Constructed(UrlHost, <<>>, <<>>, <<Invocation(msg, flag, ShortWire)>>)

\* one streaming call against every stream of extraction lines
InitExtract ==
  \E w \in ExtractWires :
    Constructed(UrlHost, <<>>, <<>>, <<Invocation(MsgHi, TRUE, w)>>)

\* one streaming call against every stream of comment lines
InitComments ==
  \E w \in CommentWires :
    Constructed(UrlHost, <<>>, <<>>, <<Invocation(MsgHi, TRUE, w)>>)

\* one streaming call against every stream of anomalous lines
InitAnomalies ==
  \E w \in AnomalyWires :
    Constructed(UrlHost, <<>>, <<>>, <<Invocation(MsgHi, TRUE, w)>>)

\* one call in either mode against every mode response
InitModes ==
  \E w \in ModeWires, flag \in BOOLEAN :
    Constructed(UrlHost, <<"k">>, <<>>, <<Invocation(MsgHi, flag, w)>>)

\* one streaming call against every response with an unterminated end
InitTails ==
  \E w \in TailWires :
    Constructed(UrlHost, <<>>, <<>>, <<Invocation(MsgHi, TRUE, w)>>)

\* up to MaxCalls consecutive calls on one client
InitCalls ==
  \E cs \in CallSeqs({Invocation(MsgHi, TRUE, w) : w \in CallWires}, MaxCalls) :
    Constructed(UrlHost, <<"k">>, <<"s">>, cs)

\* the null test made only after the request was set up
StreamChatInitFail_AfterSetup ==
  /\ pc = "idle"
  /\ calls # <<>>
  /\ message' = Head(calls).message
  /\ stream' = Head(calls).stream
  /\ calls' = Tail(calls)
  /\ curl' = BuildRequest(api_url_, api_key_, session_id_,
                          Head(calls).message, Head(calls).stream)
  /\ wire' = <<>>
  /\ sent' = 0
  /\ nwrites' = 0
  /\ received' = <<>>
  /\ emitted' = <<>>
  /\ write_ok' = TRUE
  /\ res' = "none"
  /\ outcome' = "init_error"
  /\ UNCHANGED <<api_url_, api_key_, session_id_, pc, buffer, leftover>>

\* stream_chat: curl_easy_init() returns null and the call throws
StreamChatInitFail ==
  /\ pc = "idle"
  /\ calls # <<>>
  /\ message' = Head(calls).message
  /\ stream' = Head(calls).stream
  /\ calls' = Tail(calls)
  /\ curl' = NoRequest
  /\ wire' = <<>>
  /\ sent' = 0
  /\ nwrites' = 0
  /\ received' = <<>>
  /\ emitted' = <<>>
  /\ write_ok' = TRUE
  /\ res' = "none"
  /\ outcome' = "init_error"
  /\ UNCHANGED <<api_url_, api_key_, session_id_, pc, buffer, leftover>>

\* stream_chat up to the call of curl_easy_perform: the request is built,
\* a fresh WriteCtx is created and the transfer starts
StreamChatBegin ==
  /\ pc = "idle"
  /\ calls # <<>>
  /\ message' = Head(calls).message
  /\ stream' = Head(calls).stream
  /\ wire' = Head(calls).wire
  /\ calls' = Tail(calls)
  /\ curl' = BuildRequest(api_url_, api_key_, session_id_,
                          Head(calls).message, Head(calls).stream)
  /\ buffer' = FreshBuffer(buffer)
  /\ leftover' = buffer
  /\ res' = "none"
  /\ sent' = 0
  /\ nwrites' = 0
  /\ received' = <<>>
  /\ emitted' = <<>>
  /\ write_ok' = TRUE
  /\ outcome' = "none"
  /\ pc' = "perform"
  /\ UNCHANGED <<api_url_, api_key_, session_id_>>

\* the transport hands the next n bytes of the response to on_write
OnWrite ==
  /\ pc = "perform"
  /\ write_ok
  /\ nwrites < MaxWrites
  /\ \E n \in 0..(Len(wire) - sent) :
       LET chunk == SubSeq(wire, sent + 1, sent + n)
           r == on_write(buffer, chunk)
       IN  /\ buffer' = r.buffer
           /\ emitted' = emitted \o r.cb
           /\ write_ok' = (r.ret = Len(chunk))
           /\ sent' = sent + n
           /\ received' = received \o chunk
  /\ nwrites' = nwrites + 1
  /\ UNCHANGED <<api_url_, api_key_, session_id_, calls, pc, message, stream,
                 wire, curl, res, leftover, outcome>>

\* curl_easy_perform returns CURLE_OK after the whole response was
\* delivered; stream_chat returns
PerformOk ==
  /\ pc = "perform"
  /\ write_ok
  /\ sent = Len(wire)
  /\ pc' = "idle"
  /\ res' = CURLE_OK
  /\ outcome' = AfterPerform(CURLE_OK)
  /\ emitted' = emitted \o CallbacksAfterPerform(buffer)
  /\ UNCHANGED <<api_url_, api_key_, session_id_, calls, message, stream,
                 wire, sent, nwrites, received, curl, buffer, write_ok,
                 leftover>>

\* curl_easy_perform returns an error code (at any point of the transfer, or
\* because on_write returned less than it was given); stream_chat throws
PerformFail ==
  /\ pc = "perform"
  /\ pc' = "idle"
  /\ res' = (IF write_ok THEN CURLE_RECV_ERROR ELSE CURLE_WRITE_ERROR)
  /\ outcome' = AfterPerform(res')
  /\ emitted' = emitted \o CallbacksAfterPerform(buffer)
  /\ UNCHANGED <<api_url_, api_key_, session_id_, calls, message, stream,
                 wire, sent, nwrites, received, curl, buffer, write_ok,
                 leftover>>

Next ==
  \/ StreamChatInitFail
  \/ StreamChatBegin
  \/ OnWrite
  \/ PerformOk
  \/ PerformFail

Spec ==
  Init /\ [][Next]_vars

SpecRequest ==
  InitRequest /\ [][Next]_vars

SpecExtract ==
  InitExtract /\ [][Next]_vars

SpecModes ==
  InitModes /\ [][Next]_vars

SpecCalls ==
  InitCalls /\ [][Next]_vars

SpecTails ==
  InitTails /\ [][Next]_vars

SpecComments ==
  InitComments /\ [][Next]_vars

SpecAnomalies ==
  InitAnomalies /\ [][Next]_vars

----------------------------------------------------------------------------
(* Vocabulary of the properties *)

NewlinesOf(s) ==
  {i \in 1..Len(s) : s[i] = NL}

\* 1-based index of the last newline of s, 0 if there is none
LastNewline(s) ==
  IF NewlinesOf(s) = {} THEN 0
  ELSE CHOOSE i \in NewlinesOf(s) : \A j \in NewlinesOf(s) : i >= j

RECURSIVE CompleteLines(_)
\* the newline-terminated lines of s, in order, without their newline
CompleteLines(s) ==
  IF NewlinesOf(s) = {} THEN <<>>
  ELSE LET first == CHOOSE i \in NewlinesOf(s) : \A j \in NewlinesOf(s) : i <= j
       IN  <<SubSeq(s, 1, first - 1)>>
             \o CompleteLines(SubSeq(s, first + 1, Len(s)))

RECURSIVE UnitsOfLines(_)
\* the units of a sequence of lines, line by line
UnitsOfLines(lines) ==
  IF lines = <<>> THEN <<>>
  ELSE ProcessLine(Head(lines)) \o UnitsOfLines(Tail(lines))

HasDataPrefix(line) ==
  Len(line) >= 6 /\ SubSeq(line, 1, 6) = DataPrefix

IsSentinelLine(line) ==
  line = LineDone \/ line = LineEmptyData

RECURSIVE JoinLines(_)
\* the stream made of the given lines, each newline-terminated
JoinLines(lines) ==
  IF lines = <<>> THEN <<>>
  ELSE Terminated(Head(lines)) \o JoinLines(Tail(lines))

EndsWith(s, suffix) ==
  /\ Len(s) >= Len(suffix)
  /\ SubSeq(s, Len(s) - Len(suffix) + 1, Len(s)) = suffix

DoneUnit ==
  StreamResponse(<<>>, TRUE)

RequestBuilt ==
  curl.writefunction

----------------------------------------------------------------------------
(* Properties of the response parser (specifications Spec and SpecComments) *)

\* C1: chunking independence. However the bytes received so far were split
\* into chunks (empty chunks and splits inside the prefix, a payload or
\* before a newline included), the callback invocations made so far are
\* those on_write makes when it is given the same bytes as one chunk on an
\* empty buffer; the stream `data: {"response":"hello"}\n` yields exactly
\* one unit {text: "hello", done: false}.
C1_ChunkingIndependence ==
  /\ emitted = on_write(<<>>, received).cb
  /\ received = HelloWire => emitted = <<StreamResponse(TextHello, FALSE)>>

\* the first chunk `data: {"response":"hel` was fed and emitted nothing,
\* and feeding `lo"}\n` next emits the single unit hello
C1_Witness ==
  /\ pc = "perform"
  /\ nwrites = 1
  /\ received = HelloPart1
  /\ buffer = HelloPart1
  /\ emitted = <<>>
  /\ on_write(buffer, HelloPart2).cb = <<StreamResponse(TextHello, FALSE)>>
  /\ SubSeq(wire, sent + 1, Len(wire)) = HelloPart2

\* C2: after every on_write call the parse buffer is exactly the part of
\* the bytes received in this request that follows their last newline (all
\* of them if there is none), so it contains no newline.
C2_BufferIsUnterminatedRemainder ==
  /\ buffer = SubSeq(received, LastNewline(received) + 1, Len(received))
  /\ NewlinesOf(buffer) = {}

C2_Witness ==
  /\ pc = "perform"
  /\ nwrites >= 2
  /\ NewlinesOf(received) # {}
  /\ buffer # <<>>
  /\ emitted # <<>>

\* C3: in-order, unmerged delivery. The callback invocations are the units
\* of the newline-terminated lines received so far, taken line by line in
\* stream order, at most one per line, so no line is emitted twice; the
\* lines A then B emit A then B.
C3_InOrderDelivery ==
  /\ emitted = UnitsOfLines(CompleteLines(received))
  /\ Len(emitted) <= Cardinality(NewlinesOf(received))
  /\ \A i \in 1..Len(CompleteLines(received)) :
       Len(ProcessLine(CompleteLines(received)[i])) <= 1
  /\ received = ABWire =>
       emitted = <<StreamResponse(TextA, FALSE), StreamResponse(TextB, FALSE)>>

C3_Witness ==
  /\ nwrites = 2
  /\ received = ABWire
  /\ buffer = <<>>
  /\ emitted = <<StreamResponse(TextA, FALSE), StreamResponse(TextB, FALSE)>>

\* C8: every complete line `data: [DONE]` or `data: ` emits exactly one
\* unit {text: "", done: true}; every emitted unit with done = true has
\* empty text, and the done units are as many as the sentinel lines.
C8_SentinelEmitsDone ==
  /\ \A i \in 1..Len(emitted) : emitted[i].done => emitted[i].text = <<>>
  /\ Cardinality({i \in 1..Len(emitted) : emitted[i].done})
       = Cardinality({i \in 1..Len(CompleteLines(received)) :
                        IsSentinelLine(CompleteLines(received)[i])})
  /\ received \in {Terminated(LineDone), Terminated(LineEmptyData)} =>
       emitted = <<DoneUnit>>

C8_Witness ==
  /\ received = Terminated(LineDone) \o Terminated(LineEmptyData)
  /\ emitted = <<DoneUnit, DoneUnit>>

\* C9 as claimed: once the callback was invoked with done = true no
\* further invocation happens, i.e. a done unit is always the last one.
C9_DoneIsLast ==
  \A i \in 1..Len(emitted) : emitted[i].done => i = Len(emitted)

\* C9 amended: a done unit does not end parsing. The lines that follow a
\* sentinel line, in the same chunk or in later ones, are processed by the
\* same rules: what is emitted after the first done unit is what the lines
\* after the first sentinel line emit.
C9_ParsingContinuesAfterDone ==
  LET lines == CompleteLines(received)
      dones == {i \in 1..Len(emitted) : emitted[i].done}
      sentinels == {k \in 1..Len(lines) : IsSentinelLine(lines[k])}
  IN  /\ (dones = {}) = (sentinels = {})
      /\ dones # {} =>
           LET i == CHOOSE x \in dones : \A y \in dones : x <= y
               k == CHOOSE x \in sentinels : \A y \in sentinels : x <= y
           IN  SubSeq(emitted, i + 1, Len(emitted))
                 = UnitsOfLines(SubSeq(lines, k + 1, Len(lines)))

C9_Witness ==
  /\ received = Terminated(LineDone) \o Terminated(LineA)
  /\ emitted = <<DoneUnit, StreamResponse(TextA, FALSE)>>

\* C10: a complete line without the 6-character prefix `data: ` (comment,
\* blank line, event line, `data:` without the space) emits nothing, and
\* the invocations are those of the stream with these lines left out.
C10_NonDataLinesAreInert ==
  LET lines == CompleteLines(received)
      kept == SelectSeq(lines, HasDataPrefix)
  IN  /\ emitted = on_write(<<>>, JoinLines(kept)).cb
      /\ Len(emitted) <= Len(kept)
      /\ (lines # <<>> /\ kept = <<>>) => emitted = <<>>

C10_Witness ==
  /\ received = Terminated(LineKeepAlive) \o Terminated(LineA)
  /\ emitted = <<StreamResponse(TextA, FALSE)>>

----------------------------------------------------------------------------
(* Properties of the request builder (specification SpecRequest) *)

EscapedText ==
  SubSeq(curl.postfields, Len(BodyHead) + 1,
         Len(curl.postfields) - Len(BodyMid) - Len(StreamText(stream))
           - Len(BodyTail))

SpecialChars ==
  {BACKSLASH, QUOTE, NL}

EscapeOf(c) ==
  CASE c = BACKSLASH -> <<BACKSLASH, BACKSLASH>>
    [] c = QUOTE -> <<BACKSLASH, QUOTE>>
    [] c = NL -> <<BACKSLASH, "n">>
    [] OTHER -> <<c>>

RECURSIVE EscapedImage(_)
EscapedImage(msg) ==
  IF msg = <<>> THEN <<>>
  ELSE EscapeOf(Head(msg)) \o EscapedImage(Tail(msg))

\* C4 as claimed: the body is
\* {"messages":[{"role":"user","content":"<escaped message>"}],"stream":<bool>}
\* with the escaped message enclosed in double quotes.
C4_BodyQuotesContent ==
  RequestBuilt =>
    curl.postfields =
      BodyHead \o <<QUOTE>> \o EscapedImage(message) \o <<QUOTE>> \o BodyMid
        \o (IF stream THEN TrueText ELSE FalseText) \o BodyTail

\* C5: escaping maps every character on its own and in order: backslash,
\* double quote and newline to their two-character escapes, any other
\* character to itself; a message without the three is unchanged and the
\* escaped length is the length plus the number of the three.
C5_EscapingPerCharacter ==
  RequestBuilt =>
    /\ EscapedText = EscapedImage(message)
    /\ Len(EscapedText)
         = Len(message)
             + Cardinality({i \in 1..Len(message) : message[i] \in SpecialChars})
    /\ (\A i \in 1..Len(message) : message[i] \notin SpecialChars)
         => EscapedText = message

C5_Witness ==
  /\ RequestBuilt
  /\ message = <<NL, "\t", QUOTE>>
  /\ EscapedText = <<BACKSLASH, "n", "\t", BACKSLASH, QUOTE>>

\* C6: the target URL is the base URL if that ends with /v1/chat, else the
\* base URL followed by v1/chat if it ends with /, else the base URL
\* followed by /v1/chat; for every base URL, the empty one and those
\* shorter than 8 characters included.
C6_EndpointDerivation ==
  RequestBuilt =>
    curl.url = IF EndsWith(api_url_, ChatSuffix) THEN api_url_
               ELSE IF EndsWith(api_url_, <<"/">>)
               THEN api_url_ \o ChatSuffixNoSlash
               ELSE api_url_ \o ChatSuffix

C6_Witness ==
  /\ RequestBuilt
  /\ api_url_ = ChatSuffixNoSlash
  /\ curl.url = ChatSuffixNoSlash \o ChatSuffix

\* C7: the headers are, in order: Content-Type: application/json; Accept:
\* text/event-stream when streaming, else Accept: application/json;
\* X-API-Key: <key> iff the key is non-empty; X-Session-ID: <id> iff the
\* session id is non-empty; and nothing else.
C7_HeaderList ==
  RequestBuilt =>
    curl.headers =
      <<HdrContentType>>
        \o <<IF stream THEN HdrAcceptSse ELSE HdrAcceptJson>>
        \o (IF api_key_ = <<>> THEN <<>> ELSE <<HdrApiKey \o api_key_>>)
        \o (IF session_id_ = <<>> THEN <<>> ELSE <<HdrSessionId \o session_id_>>)

C7_Witness ==
  /\ RequestBuilt
  /\ ~stream
  /\ api_key_ = <<>>
  /\ session_id_ # <<>>
  /\ curl.headers = <<HdrContentType, HdrAcceptJson, HdrSessionId \o session_id_>>

----------------------------------------------------------------------------
(* Properties of the extraction rules (specifications SpecExtract and
   SpecAnomalies) *)

PayloadOf(line) ==
  SubSeq(line, 7, Len(line))

\* 1-based positions at which the key "response": starts in payload
KeyStarts(payload) ==
  {i \in 1..(Len(payload) - 10) : SubSeq(payload, i, i + 10) = ResponseKey}

ContainsKey(payload) ==
  KeyStarts(payload) # {}

\* 1-based positions of the double quotes after the first occurrence of the key
QuotesAfterKey(payload) ==
  LET k == CHOOSE i \in KeyStarts(payload) : \A j \in KeyStarts(payload) : i <= j
  IN  {q \in (k + 11)..Len(payload) : payload[q] = QUOTE}

\* a data line with a key and at least two double quotes after it
IsKeyLine(line) ==
  HasDataPrefix(line) /\ ContainsKey(PayloadOf(line))

HasBothQuotes(line) ==
  Cardinality(QuotesAfterKey(PayloadOf(line))) >= 2

\* the text between the first two double quotes after the key
TextBetweenQuotes(line) ==
  LET p == PayloadOf(line)
      qs == QuotesAfterKey(p)
      q1 == CHOOSE q \in qs : \A r \in qs : q <= r
      q2 == CHOOSE q \in qs \ {q1} : \A r \in qs \ {q1} : q <= r
  IN  SubSeq(p, q1 + 1, q2 - 1)

IsFallbackLine(line) ==
  /\ HasDataPrefix(line)
  /\ PayloadOf(line) # <<>>
  /\ PayloadOf(line) # DoneSentinel
  /\ ~ContainsKey(PayloadOf(line))

\* the callback invocations made for the k-th complete line received
EmittedFor(k) ==
  LET lines == CompleteLines(received)
      from == Len(UnitsOfLines(SubSeq(lines, 1, k - 1)))
      to == Len(UnitsOfLines(SubSeq(lines, 1, k)))
  IN  SubSeq(emitted, from + 1, to)

\* C11: fallback to the raw payload. A complete line `data: <payload>`
\* whose payload is non-empty, is not [DONE] and does not contain
\* "response": emits exactly one unit {text: <payload>, done: false}, the
\* payload unchanged; `data: plainstring` emits text plainstring.
C11_FallbackToRawPayload ==
  /\ \A k \in 1..Len(CompleteLines(received)) :
       IsFallbackLine(CompleteLines(received)[k]) =>
         EmittedFor(k)
           = <<StreamResponse(PayloadOf(CompleteLines(received)[k]), FALSE)>>
  /\ received = Terminated(LinePlain) =>
       emitted = <<StreamResponse(TextPlain, FALSE)>>

C11_Witness ==
  /\ nwrites >= 2
  /\ received = Terminated(LinePlain)
  /\ emitted = <<StreamResponse(TextPlain, FALSE)>>

\* C16: key extraction. For a complete data line whose payload contains
\* "response":, the unit emitted for it, if any, has done = false and as
\* text the characters strictly between the first double quote after the
\* first occurrence of the key and the next double quote; the text holds no
\* double quote, and {"response":"a\"b"} is cut at the escaped quote.
C16_KeyExtraction ==
  /\ \A k \in 1..Len(CompleteLines(received)) :
       LET line == CompleteLines(received)[k]
       IN  IsKeyLine(line) =>
             /\ Len(EmittedFor(k)) <= 1
             /\ HasBothQuotes(line) =>
                  EmittedFor(k) = <<StreamResponse(TextBetweenQuotes(line), FALSE)>>
             /\ \A i \in 1..Len(EmittedFor(k)) :
                  /\ ~EmittedFor(k)[i].done
                  /\ EmittedFor(k)[i].text = TextBetweenQuotes(line)
                  /\ \A c \in 1..Len(EmittedFor(k)[i].text) :
                       EmittedFor(k)[i].text[c] # QUOTE
  /\ received = Terminated(LineEscQuote) =>
       emitted = <<StreamResponse(TextEscCut, FALSE)>>

C16_Witness ==
  /\ received = Terminated(LineKeyLater) \o Terminated(LineEscQuote)
  /\ emitted = <<StreamResponse(TextB, FALSE), StreamResponse(TextEscCut, FALSE)>>

\* C17: skip on missing quotes. A complete data line whose payload
\* contains "response": but has fewer than two double quotes after the key
\* emits nothing (no raw-payload fallback), on_write reports no error, and
\* the invocations are those of the stream without these lines.
C17_SkipOnMissingQuotes ==
  LET lines == CompleteLines(received)
      Skipped(line) == IsKeyLine(line) /\ ~HasBothQuotes(line)
      Kept(line) == ~Skipped(line)
  IN  /\ \A k \in 1..Len(lines) : Skipped(lines[k]) => EmittedFor(k) = <<>>
      /\ emitted = on_write(<<>>, JoinLines(SelectSeq(lines, Kept))).cb
      /\ Len(emitted) <= Len(SelectSeq(lines, Kept))
      /\ write_ok

C17_Witness ==
  /\ nwrites >= 2
  /\ received = Terminated(LineOneQuote) \o Terminated(LineA)
  /\ emitted = <<StreamResponse(TextA, FALSE)>>
  /\ outcome = "returned"

\* C18: parsing never fails the transfer. Every on_write call returns
\* size * nmemb, so the transport never ends with a write error and a
\* response delivered in full is followed by a normal return, whatever
\* malformed payloads, missing prefixes or missing quotes it holds.
C18_OnWriteReturnsTotal ==
  /\ write_ok
  /\ res # CURLE_WRITE_ERROR
  /\ outcome = "request_error" => res = CURLE_RECV_ERROR
  /\ res = CURLE_OK => outcome = "returned"

C18_Witness ==
  /\ received = Terminated(LineNoQuote) \o Terminated(LineDataNoSpace)
  /\ nwrites >= 2
  /\ emitted = <<>>
  /\ res = CURLE_OK
  /\ outcome = "returned"

----------------------------------------------------------------------------
(* Properties of stream_chat as a whole *)

\* C12: when the transport handle cannot be created stream_chat fails
\* before any network activity: no URL, body or header is set, the transfer
\* is never performed and the callback is never invoked.
C12_InitFailureBeforeNetwork ==
  outcome = "init_error" =>
    /\ pc = "idle"
    /\ curl.url = <<>>
    /\ curl.postfields = <<>>
    /\ curl.headers = <<>>
    /\ ~curl.post
    /\ ~curl.writefunction
    /\ res = "none"
    /\ nwrites = 0
    /\ received = <<>>
    /\ emitted = <<>>

C12_Witness ==
  /\ outcome = "init_error"
  /\ message = MsgHi
  /\ calls = <<>>
  /\ curl.url = <<>>

\* C13: stream_chat returns normally iff the transport reports CURLE_OK;
\* with any other code it raises, and only once the transport has finished;
\* finishing neither retracts callback invocations already made nor adds
\* one.
C13_ReturnIffTransportOk ==
  [][/\ (pc = "perform" /\ pc' = "idle") =>
          /\ res' # "none"
          /\ (outcome' = "returned") = (res' = CURLE_OK)
          /\ (outcome' = "request_error") = (res' # CURLE_OK)
          /\ emitted' = emitted
     /\ pc' = "perform" => (outcome' = "none" /\ res' = "none")]_vars

C13_Witness ==
  /\ outcome = "request_error"
  /\ res = CURLE_RECV_ERROR
  /\ sent < Len(wire)
  /\ emitted = <<DoneUnit, StreamResponse(TextA, FALSE)>>

\* C14: sequential calls share no mutable state. Every call starts with an
\* empty parse buffer, so what a call emits depends on its own response
\* only, whatever remainder the previous call left; and no step changes
\* the base URL, the API key or the session id.
C14_CallsShareNoState ==
  [][/\ api_url_' = api_url_
     /\ api_key_' = api_key_
     /\ session_id_' = session_id_
     /\ (pc = "idle" /\ pc' = "perform") => buffer' = <<>>
     /\ emitted' = UnitsOfLines(CompleteLines(received'))]_vars

C14_Witness ==
  /\ pc = "perform"
  /\ leftover = HelloPart1
  /\ received = HelloPart2
  /\ buffer = <<>>
  /\ emitted = <<>>

\* C15: without a complete sentinel line in the response no unit with
\* done = true is emitted, at no point of the request and not when the
\* transport completes.
C15_NoSyntheticDone ==
  (\A k \in 1..Len(CompleteLines(received)) :
     ~IsSentinelLine(CompleteLines(received)[k]))
    => \A i \in 1..Len(emitted) : ~emitted[i].done

C15_Witness ==
  /\ outcome = "returned"
  /\ received = Terminated(LineA) \o LineDone
  /\ buffer = LineDone
  /\ emitted = <<StreamResponse(TextA, FALSE)>>

\* C19: bytes after the last newline of the response are never delivered.
\* What is emitted is what the bytes up to the last newline emit, also once
\* the transport has completed: a response ending in `data: [DONE]` or
\* `data: {"response":"x"}` without a newline emits nothing for that line.
C19_RemainderIsDropped ==
  /\ emitted = on_write(<<>>, SubSeq(received, 1, LastNewline(received))).cb
  /\ (received \in {LineDone, LineX}) => emitted = <<>>
  /\ (outcome = "returned" /\ EndsWith(wire, Terminated(LineA) \o LineX)) =>
       /\ emitted[Len(emitted)] = StreamResponse(TextA, FALSE)
       /\ buffer = LineX

C19_Witness ==
  /\ outcome = "returned"
  /\ received = Terminated(LineA) \o LineX
  /\ buffer = LineX
  /\ emitted = <<StreamResponse(TextA, FALSE)>>

----------------------------------------------------------------------------
(* Properties of the two modes (specification SpecModes) *)

\* what a line of ModeLines emits, in either mode
ModeUnits(line) ==
  IF line = LineA THEN <<StreamResponse(TextA, FALSE)>>
  ELSE IF line = LineDone THEN <<DoneUnit>>
  ELSE <<>>

RECURSIVE ModeUnitsOfLines(_)
ModeUnitsOfLines(lines) ==
  IF lines = <<>> THEN <<>>
  ELSE ModeUnits(Head(lines)) \o ModeUnitsOfLines(Tail(lines))

\* C20: the stream flag changes only the stream field of the body and the
\* Accept header. The callback invocations are the same function of the
\* response bytes in both modes; in single-shot mode a JSON body that is
\* not framed as newline-terminated `data: ` lines emits nothing and the
\* call returns normally.
C20_ModeChangesOnlyRequest ==
  /\ emitted = ModeUnitsOfLines(CompleteLines(received))
  /\ RequestBuilt =>
       LET other == BuildRequest(api_url_, api_key_, session_id_, message,
                                 ~stream)
       IN  /\ curl.url = other.url
           /\ curl.post = other.post
           /\ Len(curl.headers) = Len(other.headers)
           /\ \A i \in 1..Len(curl.headers) :
                i # 2 => curl.headers[i] = other.headers[i]
           /\ curl.headers[2] = (IF stream THEN HdrAcceptSse ELSE HdrAcceptJson)
           /\ curl.postfields
                = EscapeLoop(BodyHead, message, 0) \o BodyMid
                    \o (IF stream THEN TrueText ELSE FalseText) \o BodyTail
  /\ (~stream /\ received = JsonBody) => emitted = <<>>
  /\ (~stream /\ received = JsonBody /\ res = CURLE_OK) =>
       outcome = "returned"

C20_Witness ==
  /\ ~stream
  /\ RequestBuilt
  /\ received = JsonBody
  /\ emitted = <<>>
  /\ outcome = "returned"

----------------------------------------------------------------------------
(* Types *)

TypeOK ==
  /\ pc \in {"idle", "perform"}
  /\ outcome \in {"none", "returned", "init_error", "request_error"}
  /\ sent \in 0..Len(wire)
  /\ nwrites \in 0..MaxWrites
  /\ stream \in BOOLEAN
  /\ write_ok \in BOOLEAN
  /\ res \in {"none", CURLE_OK, CURLE_WRITE_ERROR, CURLE_RECV_ERROR}

====
